---- MODULE Spec2Model ----
(***************************************************************************)
(* Model of src/gatsby-node.ts: the repository synchronizer getRepo        *)
(* (clone / fetch+reset / reject) and the sourceNodes hook that calls it.  *)
(* One cache directory (localPath), a set of remote repositories keyed by  *)
(* their URL, and the runs of sourceNodes, each advancing from one await   *)
(* to the next.                                                            *)
(***************************************************************************)
EXTENDS Integers, Sequences, FiniteSets, TLC

\* ------------------------------------------------------------------ bounds
MaxPush == 1          \* upstream pushes, all branches together
MaxFiles == 2         \* files a glob can match

\* ------------------------------------------------------------- JS values
\* A JavaScript string is a sequence of one-character strings.
WS == {" ", "\n"}

RECURSIVE trimStart(_)
trimStart(s) ==
  IF s = <<>> THEN s
  ELSE IF Head(s) \in WS THEN trimStart(Tail(s)) ELSE s

RECURSIVE trimEnd(_)
trimEnd(s) ==
  IF s = <<>> THEN s
  ELSE IF s[Len(s)] \in WS THEN trimEnd(SubSeq(s, 1, Len(s) - 1)) ELSE s

\* String.prototype.trim
trim(s) == trimEnd(trimStart(s))

\* The branch option: a string, or undefined when the option is not given.
Undefined == <<"undefined">>
Str(name) == <<"string", name>>
typeof(v) == v[1]
\* `${v}` in a template literal
TemplateString(v) == IF typeof(v) = "string" THEN v[2] ELSE "undefined"

\* ------------------------------------------------------------ environment
\* the plugin's name option
Name == "docs"

Procs == {"p1", "p2"}

\* remote option values; "a" and "A" are two different repositories
RemoteInputs == { <<"a">>, <<" ", "a", "\n">>, <<"A">> }
RepoKeys == { trim(r) : r \in RemoteInputs }
RemoteBranches == {"main", "dev"}
DefaultBranch == "main"
BranchInputs == { Str(b) : b \in RemoteBranches } \cup {Undefined}

NoCommit == <<>>
\* the n-th commit pushed to branch b of repository k
Commit(k, b, n) == <<k, b, n>>

\* what `git ls-remote --get-url` prints outside a checkout: the remote's name
DefaultRemoteName == <<"o", "r", "i", "g", "i", "n">>

\* the directory at localPath: its kind and, for a checkout, the URL of origin,
\* the branches its fetch refspec covers, its remote-tracking refs origin/<b>
\* (NoCommit where there is none), the commit HEAD is at and the branch HEAD
\* names
NoRefs == [b \in RemoteBranches |-> NoCommit]
AbsentDir == [kind |-> "absent", url |-> <<>>, tracked |-> {}, refs |-> NoRefs,
              head |-> NoCommit, cur |-> ""]
EmptyDir  == [AbsentDir EXCEPT !.kind = "empty"]
\* a populated directory that is no checkout
JunkDir   == [AbsentDir EXCEPT !.kind = "junk"]
\* a checkout made by hand with a plain git clone of url (all branches
\* tracked), on branch b, which the local option points the plugin at
FullClone(url, b) ==
  [kind |-> "repo", url |-> url, tracked |-> RemoteBranches,
   refs |-> [x \in RemoteBranches |-> Commit(trim(url), x, 0)],
   head |-> Commit(trim(url), b, 0), cur |-> b]

VARIABLES
  upstream,   \* upstream[k][b]: number of the tip commit of branch b of repo k
  dir,        \* the directory at localPath
  pc,         \* pc[p]: where run p of sourceNodes stands
  remote,     \* remote[p], branch[p]: the plugin options of run p
  branch,
  existingRemote, \* existingRemote[p]: what listRemote returned, <<>> before
  target,     \* target[p]: the ref getTargetBranch computed
  err,        \* err[p]: the failure getRepo threw, "" if none
  ops,        \* ops[p]: the operations run p has issued, in order
  pre,        \* pre[p]: dir when run p began
  fault,      \* fault[p]: an operation of run p failed for an outside reason
  ref,        \* ref[p]: parsedRemote.ref
  repoFiles,  \* repoFiles[p]: the glob's result
  created,    \* created[p]: the nodes passed to createNode, in order
  reported,   \* reported[p]: number of reporter.error calls
  last,       \* the previous completed getRepo call on localPath
  quiet,      \* no upstream push since `last` completed
  cmp         \* a call of isAlreadyCloned on its own: arguments and result

vars == <<upstream, dir, pc, remote, branch, existingRemote, target, err, ops,
          pre, fault, ref, repoFiles, created, reported, last, quiet, cmp>>

NoCall == [ok |-> FALSE, remote |-> <<>>, branch |-> Undefined]
NoCompare == [existing |-> <<>>, rem |-> <<>>, result |-> "none"]

\* ------------------------------------------------------------- filesystem
\* fs.existsSync(cachePath)
existsSync(d) == d.kind # "absent"

\* the files of the working tree at commit c
TreeFiles(c) == IF c = NoCommit THEN {} ELSE { <<"file", i>> : i \in 1..MaxFiles }

\* fs.readdirSync(cachePath)
readdirSync(d) ==
  CASE d.kind = "repo" -> { <<".git">> } \cup TreeFiles(d.head)
    [] d.kind = "junk" -> { <<"stray">> }
    [] OTHER -> {}

\* ------------------------------------------------------------------- git
Tip(k, b) == Commit(k, b, upstream[k][b])

\* git clone <url> <path> --depth 1 [--branch b]: --depth implies
\* --single-branch, so the checkout tracks only the cloned branch.
CloneResult(url, br) ==
  LET b == IF typeof(br) = "string" THEN br[2] ELSE DefaultBranch
      k == trim(url)
  IN [kind |-> "repo", url |-> url, tracked |-> {b},
      refs |-> [x \in RemoteBranches |-> IF x = b THEN Tip(k, b) ELSE NoCommit],
      head |-> Tip(k, b), cur |-> b]

\* git ls-remote --get-url, run in d
ListRemoteOutput(d) ==
  IF d.kind = "repo" THEN d.url \o <<"\n">> ELSE DefaultRemoteName \o <<"\n">>

\* the fetch left out: the remote-tracking ref stays where the clone put it
FetchResultStale(d) == d

\* git fetch --depth 1: refreshes the remote-tracking refs of the checkout's
\* fetch refspec, i.e. origin/<b> for the tracked branches b
FetchResult(d) ==
  [d EXCEPT !.refs = [x \in RemoteBranches |->
                        IF x \in d.tracked THEN Tip(trim(d.url), x) ELSE d.refs[x]]]

\* does ref t name a commit in checkout d
Resolves(d, t) ==
  /\ d.kind = "repo"
  /\ t[1] = "origin" /\ t[2] \in RemoteBranches
  /\ d.refs[t[2]] # NoCommit

\* git reset --hard t: moves the current branch and the working tree to t's
\* commit; HEAD goes on naming the same branch
ResetResult(d, t) == [d EXCEPT !.head = d.refs[t[2]]]

\* ------------------------------------------------------------ getRepo
\* String.prototype.toLowerCase over the letters in use
lower(s) == [i \in 1..Len(s) |-> IF s[i] = "A" THEN "a" ELSE s[i]]

\* isAlreadyCloned with the await on the query's promise forgotten: truthy
isAlreadyClonedNoAwait(existing, rem) == TRUE

\* isAlreadyCloned comparing case-insensitively
isAlreadyClonedIgnoreCase(existing, rem) == lower(trim(existing)) = lower(trim(rem))

\* isAlreadyCloned trimming the stored URL only
isAlreadyClonedTrimOne(existing, rem) == trim(existing) = rem

\* lines 28-32
isAlreadyCloned(existing, rem) == trim(existing) = trim(rem)

getTargetBranch(br) == <<"origin", TemplateString(br)>>

\* an operation as issued: its name and the arguments that matter (url of a
\* clone, --depth, --branch as given or Undefined, the ref of a reset)
Op(name, url, depth, br, t) ==
  [op |-> name, url |-> url, depth |-> depth, branch |-> br, target |-> t]

\* line 57 replaced by an unconditional clone
NeedsCloneAlways(d) == TRUE

\* line 57 without the emptiness test
NeedsCloneMissingOnly(d) == ~existsSync(d)

\* line 57: clone when the directory does not exist or is empty
NeedsClone(d) == ~existsSync(d) \/ Cardinality(readdirSync(d)) = 0

Idle == \A q \in Procs : pc[q] = "idle"

Init ==
  /\ upstream = [k \in RepoKeys |-> [b \in RemoteBranches |-> 0]]
  /\ dir \in {AbsentDir, EmptyDir, JunkDir, FullClone(<<"a">>, DefaultBranch)}
  /\ pc = [p \in Procs |-> "idle"]
  /\ remote = [p \in Procs |-> <<>>]
  /\ branch = [p \in Procs |-> Undefined]
  /\ existingRemote = [p \in Procs |-> <<>>]
  /\ target = [p \in Procs |-> <<>>]
  /\ err = [p \in Procs |-> ""]
  /\ ops = [p \in Procs |-> <<>>]
  /\ pre = [p \in Procs |-> AbsentDir]
  /\ fault = [p \in Procs |-> FALSE]
  /\ ref = [p \in Procs |-> ""]
  /\ repoFiles = [p \in Procs |-> <<>>]
  /\ created = [p \in Procs |-> <<>>]
  /\ reported = [p \in Procs |-> 0]
  /\ last = NoCall
  /\ quiet = TRUE
  /\ cmp = NoCompare

RECURSIVE Sum(_, _)
Sum(f, S) == IF S = {} THEN 0 ELSE LET x == CHOOSE x \in S : TRUE
                                   IN f[x] + Sum(f, S \ {x})
Pushes == Sum([k \in RepoKeys |-> Sum(upstream[k], RemoteBranches)], RepoKeys)

\* a push to branch b of repository k, between runs
Push(k, b) ==
  /\ Idle
  /\ Pushes < MaxPush
  /\ upstream' = [upstream EXCEPT ![k][b] = @ + 1]
  /\ quiet' = FALSE
  /\ UNCHANGED <<dir, pc, remote, branch, existingRemote, target, err, ops, pre,
                 fault, ref, repoFiles, created, reported, last>>
  /\ UNCHANGED cmp

\* getRepo guarded by a lock on cachePath: entered only while no other run is
\* between its detection and its return
MayEnterExclusive(p) == \A q \in Procs : pc[q] = "idle"

\* lines 52-57: a run enters getRepo whatever the other runs are doing
MayEnter(p) == pc[p] = "idle"

\* sourceNodes is entered and runs up to getRepo's first await: the state
\* detection and the call it leads to (clone, or the remote-URL query)
Begin(p, rem, br) ==
  /\ MayEnter(p)
  /\ remote' = [remote EXCEPT ![p] = rem]
  /\ branch' = [branch EXCEPT ![p] = br]
  /\ pre' = [pre EXCEPT ![p] = dir]
  /\ IF NeedsClone(dir)
     THEN /\ pc' = [pc EXCEPT ![p] = "cloning"]
          /\ ops' = [ops EXCEPT ![p] =
                <<Op("exists", <<>>, 0, Undefined, <<>>),
                  Op("clone", rem, 1,
                     IF typeof(br) = "string" THEN br ELSE Undefined, <<>>)>>]
     ELSE /\ pc' = [pc EXCEPT ![p] = "querying"]
          /\ ops' = [ops EXCEPT ![p] =
                <<Op("exists", <<>>, 0, Undefined, <<>>),
                  Op("listRemote", <<>>, 0, Undefined, <<>>)>>]
  /\ UNCHANGED <<upstream, dir, existingRemote, target, err, fault, ref,
                 repoFiles, created, reported, last, quiet>>
  /\ UNCHANGED cmp

Throw(p, cause, outside) ==
  /\ pc' = [pc EXCEPT ![p] = "threw"]
  /\ err' = [err EXCEPT ![p] = cause]
  /\ fault' = [fault EXCEPT ![p] = fault[p] \/ outside]

\* what git clone leaves first: .git with the remote configured, no commit yet
CloneStarted(url, br) ==
  [CloneResult(url, br) EXCEPT !.refs = NoRefs, !.head = NoCommit]

\* what a failed clone leaves: git removes what it created
CloneCleanup(before) == IF before.kind = "empty" THEN EmptyDir ELSE AbsentDir

\* the git process of the clone starts on the destination
CloneInit(p) ==
  /\ pc[p] = "cloning"
  /\ IF existsSync(dir) /\ readdirSync(dir) # {}
     THEN \* destination path already exists and is not an empty directory
          Throw(p, "clone", FALSE) /\ UNCHANGED dir
     ELSE /\ dir' = CloneStarted(remote[p], branch[p])
          /\ pc' = [pc EXCEPT ![p] = "cloneFetching"]
          /\ UNCHANGED <<err, fault>>
  /\ UNCHANGED <<upstream, remote, branch, existingRemote, target, ops, pre,
                 ref, repoFiles, created, reported, last, quiet>>
  /\ UNCHANGED cmp

\* CloneDone with the clone's rejection swallowed: a handle is returned anyway
CloneDoneSwallow(p, ok) ==
  /\ pc[p] = "cloneFetching"
  /\ IF ok
     THEN dir' = CloneResult(remote[p], branch[p]) /\ UNCHANGED fault
     ELSE dir' = CloneCleanup(pre[p]) /\ fault' = [fault EXCEPT ![p] = TRUE]
  /\ pc' = [pc EXCEPT ![p] = "gotRepo"]
  /\ UNCHANGED <<upstream, remote, branch, existingRemote, target, err, ops, pre,
                 ref, repoFiles, created, reported, last, quiet>>
  /\ UNCHANGED cmp

\* the clone settles; on success getRepo returns the handle
CloneDone(p, ok) ==
  /\ pc[p] = "cloneFetching"
  /\ IF ~ok
     THEN Throw(p, "clone", TRUE) /\ dir' = CloneCleanup(pre[p])
     ELSE /\ dir' = CloneResult(remote[p], branch[p])
          /\ pc' = [pc EXCEPT ![p] = "gotRepo"]
          /\ UNCHANGED <<err, fault>>
  /\ UNCHANGED <<upstream, remote, branch, existingRemote, target, ops, pre,
                 ref, repoFiles, created, reported, last, quiet>>
  /\ UNCHANGED cmp

\* listRemote settles; isAlreadyCloned decides between fetch and rejection
QueryDone(p, ok) ==
  /\ pc[p] = "querying"
  /\ IF ~ok
     THEN /\ Throw(p, "listRemote", TRUE)
          /\ UNCHANGED <<existingRemote, target, ops>>
     ELSE /\ existingRemote' = [existingRemote EXCEPT ![p] = ListRemoteOutput(dir)]
          /\ IF isAlreadyCloned(ListRemoteOutput(dir), remote[p])
             THEN /\ target' = [target EXCEPT ![p] = getTargetBranch(branch[p])]
                  /\ ops' = [ops EXCEPT ![p] = Append(@, Op("fetch", <<>>, 1, Undefined, <<>>))]
                  /\ pc' = [pc EXCEPT ![p] = "fetching"]
                  /\ UNCHANGED <<err, fault>>
             ELSE /\ Throw(p, "conflict", FALSE)
                  /\ UNCHANGED <<target, ops>>
  /\ UNCHANGED <<upstream, dir, remote, branch, pre, ref, repoFiles, created,
                 reported, last, quiet>>
  /\ UNCHANGED cmp

\* FetchDone with the reset chained by .finally: issued whatever the fetch did
FetchDoneFinally(p, ok) ==
  /\ pc[p] = "fetching"
  /\ dir' = IF ok /\ dir.kind = "repo" THEN FetchResult(dir) ELSE dir
  /\ fault' = [fault EXCEPT ![p] = @ \/ ~ok]
  /\ ops' = [ops EXCEPT ![p] = Append(@, Op("reset", <<>>, 0, Undefined, target[p]))]
  /\ pc' = [pc EXCEPT ![p] = "resetting"]
  /\ UNCHANGED <<upstream, remote, branch, existingRemote, target, err, pre, ref,
                 repoFiles, created, reported, last, quiet>>
  /\ UNCHANGED cmp

\* the fetch settles; only its fulfilment issues the reset
FetchDone(p, ok) ==
  /\ pc[p] = "fetching"
  /\ IF ~ok
     THEN Throw(p, "fetch", TRUE) /\ UNCHANGED <<dir, ops>>
     ELSE IF dir.kind # "repo"
     THEN Throw(p, "fetch", FALSE) /\ UNCHANGED <<dir, ops>>
     ELSE /\ dir' = FetchResult(dir)
          /\ ops' = [ops EXCEPT ![p] = Append(@, Op("reset", <<>>, 0, Undefined, target[p]))]
          /\ pc' = [pc EXCEPT ![p] = "resetting"]
          /\ UNCHANGED <<err, fault>>
  /\ UNCHANGED <<upstream, remote, branch, existingRemote, target, pre, ref,
                 repoFiles, created, reported, last, quiet>>
  /\ UNCHANGED cmp

\* the reset settles; on success getRepo returns the handle
ResetDone(p, ok) ==
  /\ pc[p] = "resetting"
  /\ IF ~Resolves(dir, target[p])
     THEN \* unknown revision
          Throw(p, "reset", FALSE) /\ UNCHANGED dir
     ELSE IF ~ok
     THEN Throw(p, "reset", TRUE) /\ UNCHANGED dir
     ELSE /\ dir' = ResetResult(dir, target[p])
          /\ pc' = [pc EXCEPT ![p] = "gotRepo"]
          /\ UNCHANGED <<err, fault>>
  /\ UNCHANGED <<upstream, remote, branch, existingRemote, target, ops, pre,
                 ref, repoFiles, created, reported, last, quiet>>
  /\ UNCHANGED cmp

\* ------------------------------------------------------------ sourceNodes
\* the catch block without its return: the run falls through to line 121
CatchNoReturn(p) ==
  /\ pc[p] = "threw"
  /\ reported' = [reported EXCEPT ![p] = @ + 1]
  /\ pc' = [pc EXCEPT ![p] = "gotRepo"]
  /\ UNCHANGED <<upstream, dir, remote, branch, existingRemote, target, err, ops,
                 pre, fault, ref, repoFiles, created, last, quiet>>
  /\ UNCHANGED cmp

\* the catch block: report and return
Catch(p) ==
  /\ pc[p] = "threw"
  /\ reported' = [reported EXCEPT ![p] = @ + 1]
  /\ pc' = [pc EXCEPT ![p] = "returned"]
  /\ UNCHANGED <<upstream, dir, remote, branch, existingRemote, target, err, ops,
                 pre, fault, ref, repoFiles, created, last, quiet>>
  /\ UNCHANGED cmp

\* repo.raw(['rev-parse', '--abbrev-ref', 'HEAD'])
RevParse(p, ok) ==
  /\ pc[p] = "gotRepo"
  /\ ops' = [ops EXCEPT ![p] = Append(@, Op("rev-parse", <<>>, 0, Undefined, <<>>))]
  /\ IF ok /\ dir.kind = "repo"
     THEN /\ ref' = [ref EXCEPT ![p] = dir.cur]
          /\ pc' = [pc EXCEPT ![p] = "globbing"]
     ELSE /\ pc' = [pc EXCEPT ![p] = "rejected"]
          /\ UNCHANGED ref
  /\ UNCHANGED <<upstream, dir, remote, branch, existingRemote, target, err,
                 pre, fault, repoFiles, created, reported, last, quiet>>
  /\ UNCHANGED cmp

\* fastGlob(patterns, {cwd: localPath}) matching n files
Glob(p, n) ==
  /\ pc[p] = "globbing"
  /\ ops' = [ops EXCEPT ![p] = Append(@, Op("glob", <<>>, 0, Undefined, <<>>))]
  /\ repoFiles' = [repoFiles EXCEPT ![p] = [i \in 1..n |-> <<"file", i>>]]
  /\ pc' = [pc EXCEPT ![p] = "remoteNode"]
  /\ UNCHANGED <<upstream, dir, remote, branch, existingRemote, target, err,
                 pre, fault, ref, created, reported, last, quiet>>
  /\ UNCHANGED cmp

remoteId == <<"git-remote", Name>>

\* createNode(node) for the git remote
CreateRemoteNode(p) ==
  /\ pc[p] = "remoteNode"
  /\ created' = [created EXCEPT ![p] =
        Append(@, [type |-> "GitRemote", id |-> remoteId, gitRemote |-> <<>>,
                   ref |-> ref[p]])]
  /\ pc' = [pc EXCEPT ![p] = "fileNodes"]
  /\ UNCHANGED <<upstream, dir, remote, branch, existingRemote, target, err, ops,
                 pre, fault, ref, repoFiles, reported, last, quiet>>
  /\ UNCHANGED cmp

\* the loop's turn with line 158 left out: the file node carries no link
CreateFileNodeUnlinked(p) ==
  /\ pc[p] = "fileNodes"
  /\ Len(created[p]) - 1 < Len(repoFiles[p])
  /\ created' = [created EXCEPT ![p] =
        Append(@, [type |-> "File", id |-> repoFiles[p][Len(created[p])],
                   gitRemote |-> <<>>, ref |-> ""])]
  /\ UNCHANGED <<upstream, dir, pc, remote, branch, existingRemote, target, err,
                 ops, pre, fault, ref, repoFiles, reported, last, quiet>>
  /\ UNCHANGED cmp

\* one turn of the loop over repoFiles
CreateFileNode(p) ==
  /\ pc[p] = "fileNodes"
  /\ Len(created[p]) - 1 < Len(repoFiles[p])
  /\ created' = [created EXCEPT ![p] =
        Append(@, [type |-> "File", id |-> repoFiles[p][Len(created[p])],
                   gitRemote |-> remoteId, ref |-> ""])]
  /\ UNCHANGED <<upstream, dir, pc, remote, branch, existingRemote, target, err,
                 ops, pre, fault, ref, repoFiles, reported, last, quiet>>
  /\ UNCHANGED cmp

\* a return from inside the loop: the run ends whatever is left of repoFiles
FinishEarly(p) ==
  /\ pc[p] = "fileNodes"
  /\ pc' = [pc EXCEPT ![p] = "returned"]
  /\ UNCHANGED <<upstream, dir, remote, branch, existingRemote, target, err, ops,
                 pre, fault, ref, repoFiles, created, reported, last, quiet>>
  /\ UNCHANGED cmp

\* the loop ends and sourceNodes returns
Finish(p) ==
  /\ pc[p] = "fileNodes"
  /\ Len(created[p]) - 1 = Len(repoFiles[p])
  /\ pc' = [pc EXCEPT ![p] = "returned"]
  /\ UNCHANGED <<upstream, dir, remote, branch, existingRemote, target, err, ops,
                 pre, fault, ref, repoFiles, created, reported, last, quiet>>
  /\ UNCHANGED cmp

\* the promise of the run settles; the run's locals are gone
Settle(p) ==
  /\ pc[p] \in {"returned", "rejected"}
  /\ last' = [ok |-> err[p] = "", remote |-> remote[p], branch |-> branch[p]]
  /\ quiet' = TRUE
  /\ pc' = [pc EXCEPT ![p] = "idle"]
  /\ remote' = [remote EXCEPT ![p] = <<>>]
  /\ branch' = [branch EXCEPT ![p] = Undefined]
  /\ existingRemote' = [existingRemote EXCEPT ![p] = <<>>]
  /\ target' = [target EXCEPT ![p] = <<>>]
  /\ err' = [err EXCEPT ![p] = ""]
  /\ ops' = [ops EXCEPT ![p] = <<>>]
  /\ pre' = [pre EXCEPT ![p] = AbsentDir]
  /\ fault' = [fault EXCEPT ![p] = FALSE]
  /\ ref' = [ref EXCEPT ![p] = ""]
  /\ repoFiles' = [repoFiles EXCEPT ![p] = <<>>]
  /\ created' = [created EXCEPT ![p] = <<>>]
  /\ reported' = [reported EXCEPT ![p] = 0]
  /\ UNCHANGED <<upstream, dir>>
  /\ UNCHANGED cmp

\* a run moves on from the await it stands at
Run(p) ==
  \/ CloneInit(p)
  \/ \E ok \in BOOLEAN : CloneDone(p, ok)
  \/ \E ok \in BOOLEAN : QueryDone(p, ok)
  \/ \E ok \in BOOLEAN : FetchDone(p, ok)
  \/ \E ok \in BOOLEAN : ResetDone(p, ok)
  \/ Catch(p)
  \/ \E ok \in BOOLEAN : RevParse(p, ok)
  \/ \E n \in 0..MaxFiles : Glob(p, n)
  \/ CreateRemoteNode(p)
  \/ CreateFileNode(p)
  \/ Finish(p)

Step(p) == Run(p) \/ Settle(p)

\* runs of sourceNodes one after the other (one build at a time); which
\* process carries a run makes no difference then, so one carries them all
Serial == CHOOSE p \in Procs : TRUE
Start(rem, br) == Idle /\ Begin(Serial, rem, br)

Next ==
  \/ \E k \in RepoKeys, b \in RemoteBranches : Push(k, b)
  \/ \E rem \in RemoteInputs, br \in BranchInputs : Start(rem, br)
  \/ \E p \in Procs : Step(p)

Spec == Init /\ [][Next]_vars

\* one run of sourceNodes per process, on the same localPath, with nothing
\* serializing them
NextConc ==
  \/ \E p \in Procs, rem \in RemoteInputs, br \in BranchInputs : Begin(p, rem, br)
  \/ \E p \in Procs : Run(p)

SpecConc == Init /\ [][NextConc]_vars

TypeOK ==
  /\ dir.kind \in {"absent", "empty", "junk", "repo"}
  /\ \A p \in Procs : pc[p] \in {"idle", "cloning", "cloneFetching", "querying", "fetching",
        "resetting", "gotRepo", "threw", "globbing", "remoteNode", "fileNodes",
        "returned", "rejected"}

\* ------------------------------------------- isAlreadyCloned on its own
MaxUrlLen == 3
UrlChars == {"a", "A", " ", "\n"}
\* the strings of at most MaxUrlLen characters
Strings == UNION { [1..n -> UrlChars] : n \in 0..MaxUrlLen }

InitCompare ==
  /\ upstream = [k \in RepoKeys |-> [b \in RemoteBranches |-> 0]]
  /\ dir = AbsentDir
  /\ pc = [p \in Procs |-> "idle"]
  /\ remote = [p \in Procs |-> <<>>]
  /\ branch = [p \in Procs |-> Undefined]
  /\ existingRemote = [p \in Procs |-> <<>>]
  /\ target = [p \in Procs |-> <<>>]
  /\ err = [p \in Procs |-> ""]
  /\ ops = [p \in Procs |-> <<>>]
  /\ pre = [p \in Procs |-> AbsentDir]
  /\ fault = [p \in Procs |-> FALSE]
  /\ ref = [p \in Procs |-> ""]
  /\ repoFiles = [p \in Procs |-> <<>>]
  /\ created = [p \in Procs |-> <<>>]
  /\ reported = [p \in Procs |-> 0]
  /\ last = NoCall
  /\ quiet = TRUE
  /\ cmp \in [existing : Strings, rem : Strings, result : {"none"}]

\* isAlreadyCloned returns for the stored URL cmp.existing and the argument
\* cmp.rem
Compare ==
  /\ cmp.result = "none"
  /\ cmp' = [cmp EXCEPT !.result =
               IF isAlreadyCloned(cmp.existing, cmp.rem) THEN "match" ELSE "differ"]
  /\ UNCHANGED <<upstream, dir, pc, remote, branch, existingRemote, target, err,
                 ops, pre, fault, ref, repoFiles, created, reported, last, quiet>>

NextCompare == Compare

SpecCompare == InitCompare /\ [][NextCompare]_vars

\* ------------------------------------------------------------ properties
GitOps == {"clone", "listRemote", "fetch", "reset"}
Mutating == {"clone", "fetch", "reset"}
IsGitOp(o) == o.op \in GitOps
\* the git operations run p has issued, in order
Issued(p) == SelectSeq(ops[p], IsGitOp)
Count(p, name) == Cardinality({i \in 1..Len(ops[p]) : ops[p][i].op = name})
\* the branch whose tip a call for br asks for
Wanted(br) == IF typeof(br) = "string" THEN br[2] ELSE DefaultBranch
\* getRepo has returned a handle to run p / has thrown
Succeeded(p) == pc[p] = "gotRepo"
Failed(p) == pc[p] = "threw"
Populated(d) == existsSync(d) /\ readdirSync(d) # {}
Matching(p) == pre[p].kind = "repo" /\ trim(pre[p].url) = trim(remote[p])

\* C1: after every successful synchronize the directory at localPath exists,
\* is non-empty and its configured remote URL equals remoteUrl after trimming
\* both.
C1_SyncedDirMatchesRemote ==
  \A p \in Procs : Succeeded(p) =>
    /\ existsSync(dir)
    /\ readdirSync(dir) # {}
    /\ dir.kind = "repo"
    /\ trim(ListRemoteOutput(dir)) = trim(remote[p])

\* a success on the fetch path, on a checkout whose stored URL is spelled
\* differently from the argument
C1_Witness ==
  \E p \in Procs : Succeeded(p) /\ pre[p].kind = "repo" /\ pre[p].url # remote[p]

\* C2: on a populated checkout of a different remote (the query having
\* answered), synchronize fails with the conflict error, has issued no clone,
\* fetch or reset, and the directory is as it was before the call.
C2_MismatchRejectedUntouched ==
  \A p \in Procs :
    ( /\ pre[p].kind = "repo"
      /\ trim(pre[p].url) # trim(remote[p])
      /\ pc[p] \notin {"idle", "querying"}
      /\ ~fault[p] ) =>
    /\ pc[p] \in {"threw", "returned"}
    /\ err[p] = "conflict"
    /\ dir = pre[p]
    /\ \A i \in 1..Len(ops[p]) : ops[p][i].op \notin Mutating

C2_Witness ==
  \E p \in Procs : Failed(p) /\ err[p] = "conflict" /\ pre[p].kind = "repo"

\* C3: on a populated checkout of the matching remote, with branch absent,
\* synchronize resets to origin/<the branch the checkout is on> and succeeds
\* with HEAD at that branch's upstream tip.
C3_AbsentBranchTracksCurrent ==
  \A p \in Procs :
    ( /\ pc[p] \in {"gotRepo", "threw"}
      /\ Matching(p)
      /\ branch[p] = Undefined
      /\ ~fault[p] ) =>
    /\ Succeeded(p)
    /\ target[p] = <<"origin", pre[p].cur>>
    /\ dir.head = Tip(trim(remote[p]), pre[p].cur)

\* C4: from an absent and from an empty localPath alike, synchronize issues
\* exactly one clone of remoteUrl with depth 1, with --branch iff branch is
\* given, and no remote-URL query, fetch or reset; a success leaves the clone's
\* result.
C4_AbsentOrEmptyClones ==
  \A p \in Procs :
    (pc[p] # "idle" /\ pre[p].kind \in {"absent", "empty"}) =>
    /\ Issued(p) = << Op("clone", remote[p], 1, branch[p], <<>>) >>
    /\ Succeeded(p) => dir = CloneResult(remote[p], branch[p])

C4_Witness ==
  \E p \in Procs : Succeeded(p) /\ pre[p].kind = "empty" /\ branch[p] = Undefined

\* C5: on every successful synchronize HEAD is the tip of the remote's
\* <branch> (the default branch when none is given) at the time of the call.
C5_HeadIsUpstreamTip ==
  \A p \in Procs : Succeeded(p) =>
    dir.head = Tip(trim(remote[p]), Wanted(branch[p]))

\* a fetch-and-reset that moved HEAD
C5_Witness ==
  \E p \in Procs : Succeeded(p) /\ pre[p].kind = "repo" /\ pre[p].head # dir.head

\* C6: a second synchronize with the arguments of a successful first one and
\* no upstream push in between succeeds and leaves the checkout as the first
\* left it.
C6_IdempotentResync ==
  \A p \in Procs :
    ( /\ pc[p] \in {"gotRepo", "threw"}
      /\ last.ok /\ last.remote = remote[p] /\ last.branch = branch[p]
      /\ quiet
      /\ ~fault[p] ) =>
    /\ Succeeded(p)
    /\ dir = pre[p]

\* C7: on a matching checkout that is on branch B, synchronize with branch C,
\* C # B, succeeds with HEAD at the tip of origin/C.
C7_BranchSwitchByReset ==
  \A p \in Procs :
    ( /\ pc[p] \in {"gotRepo", "threw"}
      /\ Matching(p)
      /\ typeof(branch[p]) = "string" /\ branch[p][2] # pre[p].cur
      /\ ~fault[p] ) =>
    /\ Succeeded(p)
    /\ dir.head = Tip(trim(remote[p]), branch[p][2])

\* C8: state detection comes before any mutating operation; on the matching
\* path one fetch with depth 1 is issued, the reset only once that fetch has
\* succeeded; a failed fetch issues no reset and leaves the directory as it
\* was.
C8_DetectFetchResetOrder ==
  \A p \in Procs :
    /\ \A i \in 1..Len(ops[p]) : ops[p][i].op \in Mutating =>
         /\ i > 1 /\ ops[p][1].op = "exists"
         /\ Populated(pre[p]) =>
              /\ i > 2 /\ ops[p][2].op = "listRemote"
              /\ existingRemote[p] = ListRemoteOutput(pre[p])
    /\ pc[p] \in {"fetching", "resetting"} =>
         /\ Count(p, "fetch") = 1
         /\ \A i \in 1..Len(ops[p]) : ops[p][i].op = "fetch" => ops[p][i].depth = 1
    /\ \A i \in 1..Len(ops[p]) : ops[p][i].op = "reset" =>
         /\ i > 1 /\ ops[p][i - 1].op = "fetch"
         /\ err[p] # "fetch"
         /\ dir.kind = "repo" /\ dir.refs = FetchResult(dir).refs
    /\ (err[p] = "fetch") =>
         /\ Count(p, "reset") = 0
         /\ dir = pre[p]

C8_Witness ==
  \E p \in Procs : Failed(p) /\ err[p] = "fetch" /\ dir.refs # FetchResult(dir).refs

\* C9: a failed clone, query, fetch or reset makes synchronize fail with that
\* operation's failure, never return a handle; clone, fetch and reset are each
\* issued at most once in a call.
C9_FailuresPropagateNoRetry ==
  \A p \in Procs :
    /\ (fault[p] \/ err[p] \notin {"", "conflict"}) =>
         /\ pc[p] \in {"threw", "returned"}
         /\ Issued(p) # <<>>
         /\ err[p] = Issued(p)[Len(Issued(p))].op
    /\ \A name \in Mutating : Count(p, name) <= 1

C9_Witness ==
  \E p \in Procs : Failed(p) /\ fault[p] /\ err[p] = "reset"

\* C10: when synchronize fails, sourceNodes reports the error once through
\* reporter.error and returns: no HEAD query, no glob, no createNode.
C10_FailedSyncStopsRun ==
  \A p \in Procs :
    /\ err[p] # "" =>
         /\ pc[p] \in {"threw", "returned"}
         /\ reported[p] = (IF pc[p] = "returned" THEN 1 ELSE 0)
         /\ \A i \in 1..Len(ops[p]) : ops[p][i].op \notin {"rev-parse", "glob"}
         /\ created[p] = <<>> /\ repoFiles[p] = <<>> /\ ref[p] = ""
    /\ err[p] = "" => reported[p] = 0

C10_Witness ==
  \E p \in Procs : pc[p] = "returned" /\ err[p] # "" /\ reported[p] = 1

\* the positions of s that hold no whitespace
Inked(s) == {i \in 1..Len(s) : s[i] \notin WS}
\* s from its first to its last non-whitespace character
Core(s) ==
  IF Inked(s) = {} THEN <<>>
  ELSE SubSeq(s, CHOOSE i \in Inked(s) : \A j \in Inked(s) : i <= j,
                 CHOOSE i \in Inked(s) : \A j \in Inked(s) : i >= j)

\* C11: the comparison matches exactly when the stored URL and the argument,
\* each taken from its first to its last non-whitespace character, are the same
\* string character for character, letter case included.
C11_CompareTrimmedExact ==
  cmp.result # "none" =>
    (cmp.result = "match" <=>
       /\ Len(Core(cmp.existing)) = Len(Core(cmp.rem))
       /\ \A i \in 1..Len(Core(cmp.rem)) : Core(cmp.existing)[i] = Core(cmp.rem)[i])

\* a match of two differently spelled strings, the stored one ending in a
\* newline
C11_Witness ==
  /\ cmp.result = "match"
  /\ cmp.existing # cmp.rem
  /\ cmp.existing # <<>> /\ cmp.existing[Len(cmp.existing)] = "\n"
  /\ Inked(cmp.rem) # {}

\* C12: nothing keeps a second run out while a first is in flight: an idle run
\* can always enter; while one run's clone is issued and localPath is still
\* absent or empty, another run entering also issues a clone; and while one
\* run's clone is under way, another run whose query finds the same remote
\* issues its fetch.
C12_NoMutualExclusion ==
  \A p \in Procs : \A q \in Procs \ {p} :
    /\ pc[q] = "idle" =>
         \A rem \in RemoteInputs, br \in BranchInputs : ENABLED Begin(q, rem, br)
    /\ (pc[p] = "cloning" /\ pc[q] = "idle" /\ NeedsClone(dir)) =>
         ENABLED (Begin(q, remote[p], branch[p]) /\ pc'[q] = "cloning")
    /\ ( /\ pc[p] = "cloneFetching" /\ pc[q] = "querying"
         /\ isAlreadyCloned(ListRemoteOutput(dir), remote[q]) ) =>
         ENABLED (QueryDone(q, TRUE) /\ pc'[q] = "fetching")
    /\ pc[q] = "cloning" => NeedsClone(pre[q])

\* both runs have seen localPath absent or empty and both have issued a clone
C12_Witness ==
  \A p \in Procs :
    /\ pc[p] = "cloning"
    /\ pre[p].kind \in {"absent", "empty"}
    /\ Count(p, "clone") = 1

\* the nodes of the given type run p has passed to createNode
OfType(p, t) == {i \in 1..Len(created[p]) : created[p][i].type = t}

\* C13: in a run the GitRemote node is the first node created, every node
\* after it is a file node carrying gitRemote___NODE equal to that node's id,
\* and nodes are created one per step.
C13_RemoteNodeFirstFilesLinked ==
  /\ [](\A p \in Procs : created[p] # <<>> =>
          /\ created[p][1].type = "GitRemote"
          /\ created[p][1].id = remoteId
          /\ \A i \in 2..Len(created[p]) :
               /\ created[p][i].type = "File"
               /\ created[p][i].gitRemote = created[p][1].id)
  /\ [][\A p \in Procs :
          \/ created'[p] = created[p]
          \/ created'[p] = <<>>
          \/ /\ Len(created'[p]) = Len(created[p]) + 1
             /\ SubSeq(created'[p], 1, Len(created[p])) = created[p]]_vars

C13_Witness ==
  \E p \in Procs :
    /\ pc[p] = "returned"
    /\ Len(repoFiles[p]) >= 2
    /\ Len(created[p]) = Len(repoFiles[p]) + 1

\* C14: createNode is called only once getRepo has returned a handle and the
\* HEAD query and the glob are done; a run that returns after a successful
\* synchronization with n matched files has made exactly n + 1 createNode
\* calls, one GitRemote node and one file node per matched file, and once they
\* are made the run can only return.
C14_NodesOnlyAfterSyncExactCount ==
  \A p \in Procs :
    /\ created[p] # <<>> =>
         /\ err[p] = ""
         /\ pc[p] \in {"fileNodes", "returned"}
         /\ Count(p, "rev-parse") = 1 /\ Count(p, "glob") = 1
         /\ \/ Count(p, "clone") = 1
            \/ Count(p, "reset") = 1
    /\ pc[p] \in {"idle", "cloning", "cloneFetching", "querying", "fetching",
                  "resetting", "threw"} => created[p] = <<>>
    /\ (pc[p] = "returned" /\ err[p] = "") =>
         /\ Len(created[p]) = Len(repoFiles[p]) + 1
         /\ Cardinality(OfType(p, "GitRemote")) = 1
         /\ \A k \in 1..Len(repoFiles[p]) :
              Cardinality({i \in OfType(p, "File") : created[p][i].id = repoFiles[p][k]}) = 1
    /\ (pc[p] = "fileNodes" /\ Len(created[p]) = Len(repoFiles[p]) + 1) =>
         /\ ~ENABLED CreateFileNode(p)
         /\ ENABLED Finish(p)

C14_Witness ==
  \E p \in Procs :
    /\ pc[p] = "returned" /\ err[p] = ""
    /\ Len(repoFiles[p]) = 1
    /\ Len(created[p]) = 2

\* a checkout a clone has completed
Cloned(d) == d.kind = "repo" /\ d.head # NoCommit

\* C15: with the runs serialized, a run that finds a completed checkout at
\* localPath leaves its configured remote URL as it is; if its remoteUrl
\* differs after trimming it fails; and a clone is issued only into an absent
\* or empty localPath.
C15_RemoteUrlFixedOnceCloned ==
  \A p \in Procs : pc[p] # "idle" =>
    /\ Cloned(pre[p]) =>
         /\ dir.kind = "repo" /\ dir.url = pre[p].url
         /\ trim(pre[p].url) # trim(remote[p]) =>
              /\ pc[p] \in {"querying", "threw", "returned"}
              /\ pc[p] = "returned" => err[p] # ""
    /\ Count(p, "clone") > 0 => ~Populated(pre[p])

\* a run with another remote has failed on a checkout an earlier run cloned
C15_Witness ==
  \E p \in Procs :
    /\ pc[p] = "returned" /\ err[p] = "conflict"
    /\ Cloned(pre[p]) /\ pre[p].tracked # RemoteBranches
    /\ dir = pre[p]

\* C16: in a run with a branch option given, the ref recorded on the GitRemote
\* node is the name of that branch, the one whose tip the checkout was
\* synchronized to.
C16_RefNamesSyncedBranch ==
  \A p \in Procs :
    (created[p] # <<>> /\ typeof(branch[p]) = "string") =>
      /\ dir.head = Tip(trim(remote[p]), branch[p][2])
      /\ created[p][1].ref = branch[p][2]

====
